---- MODULE Spec2Model ----
(***************************************************************************)
(* Model of eruca/logs: the rotating file writer (file.go) and the         *)
(* asynchronous Logger (logs.go), with the walk that deletes old log files *)
(* and the goroutines that call WriteMsg on one writer at the same time.   *)
(*                                                                         *)
(* The file writer's methods are operators over a record s holding the     *)
(* writer's fields together with the part of the file system and of the    *)
(* handle table they touch; each returns the record after the call (and    *)
(* an err flag where the Go method returns an error).  f is the record of  *)
(* failures the operating system injects into the call.                    *)
(***************************************************************************)
EXTENDS Integers, Sequences, FiniteSets, TLC

\* ---------------------------------------------------------------- bounds
MaxWrites == 4          \* WriteMsg calls in one behaviour
MaxDate == 1            \* calendar dates 0..MaxDate
MaxLinesCfg == 2        \* the non-zero Maxlines a writer is configured with
MaxRestarts == 1        \* constructions of a new writer on the same directory
MaxFaults == 1          \* calls in which the operating system refuses a step
NumThreads == 2         \* goroutines calling the Logger
Buffer == 1             \* capacity of msgChan (newLogger's buffer)
MaxSubmits == 3         \* messages the callers submit to the Logger
MaxLogged == 2          \* of these, in SpecLogger and SpecLevel
MaxAdds == 2            \* AddLogger calls
MaxEntries == 3         \* entries of the log directory deleteOldLog walks

\* ------------------------------------------------------------- constants
TRACE == 0
DEBUG == 1
INFO == 2
WARN == 3
ERROR == 4
CRITICAL == 5
FATAL == 6
LogLevel == TRACE..FATAL

LogConsole == 0
LogFile == 1
LogType == {LogConsole, LogFile, 2}

MaxNum == 999           \* doRotate probes the sequence numbers 1..999
PrefixEstimate == 24    \* WriteMsg: n := 24 + len(msg)
Maxdays == 7            \* NewFileWriter: Maxdays: 7
StampLen == 20          \* log.Ldate|log.Ltime: "2013/06/23 21:00:22 "
MaxsizeCfg == 40        \* the non-zero Maxsize a writer is configured with
MsgLens == {1, 6}       \* len(msg) of the messages written

VARIABLES
    cfg,    \* FileLogWriter's exported configuration fields
    w,      \* FileLogWriter's state, its handles and the log directory
    now,    \* the calendar date (time.Now())
    nw,     \* number of WriteMsg calls made so far
    nr,     \* number of writers constructed after the first
    nf,     \* number of calls in which the operating system refused a step
    last,   \* what the last call on the writer was given and what it did
    lg,     \* Logger: level and outputs (LogType -> index into sinks)
    msgChan,        \* Logger.msgChan: the envelopes queued
    loop,   \* the goroutine running Logger.startLogger
    thr,    \* the calling goroutines: where each stands in its call
    adapters,       \* the package's registry of generators
    sinks,  \* every LoggerInterface instance AddLogger made
    delivered,      \* <<sink, msg>>: the WriteMsg calls the loop made on sinks
    sent,   \* the messages the callers' sends put on msgChan
    proc,   \* the process: running, panicked or exited (with its status)
    ns,     \* number of messages submitted
    na,     \* number of AddLogger calls
    dlast,  \* what the last call on the Logger was given and what it did
    sweep,  \* deleteOldLog: the directory it walks and how far it has come
    cw      \* goroutines inside WriteMsg on one writer, and the two locks

fvars == <<cfg, w, now, nw, nr, nf, last>>
dvars == <<lg, msgChan, loop, thr, adapters, sinks, delivered, sent, proc, ns, na,
           dlast>>
xvars == <<sweep, cw>>
vars == <<fvars, dvars, xvars>>

Max(a, b) == IF a >= b THEN a ELSE b

\* ------------------------------------------------------------ file names
\* fmt.Sprintf("%03d", num), as its three digits
Pad3(num) == <<num \div 100, (num \div 10) % 10, num % 10>>

\* w.Filename + fmt.Sprintf(".%s.%03d", time.Now().Format("2006-01-02"), num)
RotName(date, num) == <<date>> \o Pad3(num)

\* the sequence number a rotated file's name shows
SeqOf(name) == 100 * name[2] + 10 * name[3] + name[4]

\* time.Now().Day(): the day of the month
DayOf(date) == (date % 31) + 1

\* os.Lstat(fname) succeeds
Lstat(s, fname) == fname \in s.names \/ fname[1] \in s.full

\* ---------------------------------------------------------- file content
\* A file is a sequence of tokens: a record's text [n, len] (the n-th
\* message written, of len characters, behind its time stamp), or the
\* newline NL that Println puts after it.
NL == [n |-> 0, len |-> 0]

Line(msg) == <<msg, NL>>

\* the bytes a token takes in the file
BytesOf(tok) == IF tok = NL THEN 1 ELSE StampLen + tok.len

RECURSIVE Size(_)
Size(content) ==
    IF content = <<>> THEN 0
    ELSE BytesOf(Head(content)) + Size(Tail(content))

\* strings.Split(content, "\n"): the pieces between the newlines
RECURSIVE Split(_)
Split(content) ==
    IF \A i \in 1..Len(content) : content[i] # NL THEN <<content>>
    ELSE LET i == CHOOSE j \in 1..Len(content) :
                      /\ content[j] = NL
                      /\ \A k \in 1..(j - 1) : content[k] # NL
         IN  <<SubSeq(content, 1, i - 1)>>
                 \o Split(SubSeq(content, i + 1, Len(content)))

\* the records of a file, in order
Records(content) == SelectSeq(content, LAMBDA tok : tok # NL)

\* ---------------------------------------------------------------- handles
\* s.open is the set of the *os.File values that are open, s.fd is w.mw.fd
\* (0 is nil).  A new handle takes the smallest number not in use.
NewHandle(s) == CHOOSE h \in 1..(Cardinality(s.open) + 2) :
                    /\ h \notin s.open \cup {s.fd}
                    /\ \A g \in 1..(h - 1) : g \in s.open \cup {s.fd}

\* fd.Close()
CloseFd(s, fd) == [s EXCEPT !.open = @ \ {fd}]

\* MuxWriter.setFd
setFd(s, fd) ==
    [(IF s.fd # 0 THEN CloseFd(s, s.fd) ELSE s) EXCEPT !.fd = fd]

\* FileLogWriter.createLogFile: os.OpenFile(O_WRONLY|O_APPEND|O_CREATE)
createLogFile(s, f) ==
    IF f.open THEN [s |-> s, fd |-> 0, err |-> TRUE]
    ELSE LET h == NewHandle(s)
             t == [s EXCEPT !.exists = TRUE,
                            !.active = IF s.exists THEN @ ELSE <<>>,
                            !.open = @ \cup {h}]
         IN  [s |-> [t EXCEPT !.peak = Max(@, Cardinality(t.open))],
              fd |-> h, err |-> FALSE]

\* FileLogWriter.initFd
initFd(s, f) ==
    IF f.stat THEN [s |-> s, err |-> TRUE]
    ELSE LET t == [s EXCEPT !.curlines = Size(s.active),
                            !.opendata = DayOf(now)]
         IN  IF Size(s.active) > 0
             THEN IF f.read THEN [s |-> t, err |-> TRUE]
                  ELSE [s |-> [t EXCEPT !.curlines = Len(Split(s.active))],
                        err |-> FALSE]
             ELSE [s |-> [t EXCEPT !.curlines = 0], err |-> FALSE]

\* FileLogWriter.startLogger
startLogger(s, f) ==
    LET c == createLogFile(s, f)
    IN  IF c.err THEN [s |-> c.s, err |-> TRUE]
        ELSE initFd(setFd(c.s, c.fd), f)

\* (mutant) the sequence number counted from the renames this writer made,
\* without looking at the directory
Probe_Counted(s) == Len(s.renames) + 1

\* the for loop of doRotate: the first number of 1..MaxNum whose name Lstat
\* does not find, or MaxNum + 1 when every one of these names exists (as
\* it does for a date in s.full)
Probe(s) ==
    IF now \in s.full \/ \A n \in 1..MaxNum : Lstat(s, RotName(now, n))
    THEN MaxNum + 1
    ELSE CHOOSE n \in 1..MaxNum :
             /\ ~Lstat(s, RotName(now, n))
             /\ \A m \in 1..(n - 1) : Lstat(s, RotName(now, m))

\* os.Rename(w.Filename, fname): the log file takes the name fname,
\* replacing what that name held
Rename(s, fname) ==
    [s EXCEPT !.names = @ \cup {fname},
              !.rotated = [x \in DOMAIN @ \cup {fname} |->
                              IF x = fname THEN s.active ELSE @[x]],
              !.exists = FALSE,
              !.active = <<>>,
              !.renames = Append(@, fname)]

\* (mutant) doRotate leaving the old handle open
doRotate_NoClose(s, f) ==
    IF ~s.exists THEN [s |-> s, err |-> FALSE]
    ELSE LET num == Probe(s)
             fname == RotName(now, num)
         IN  IF num > MaxNum THEN [s |-> s, err |-> TRUE]
             ELSE IF f.rename THEN [s |-> s, err |-> TRUE]
             ELSE startLogger(Rename(s, fname), f)

\* FileLogWriter.doRotate
doRotate(s, f) ==
    IF ~s.exists THEN [s |-> s, err |-> FALSE]
    ELSE LET num == Probe(s)
             fname == RotName(now, num)
         IN  IF num > MaxNum THEN [s |-> s, err |-> TRUE]
             ELSE LET c == CloseFd(s, s.fd)
                  IN  IF f.rename THEN [s |-> c, err |-> TRUE]
                      ELSE startLogger(Rename(c, fname), f)

\* the condition of docheck's if: rotation is on and a limit is reached
Due(s) ==
    /\ cfg.Rotate
    /\ \/ cfg.Maxlines > 0 /\ s.curlines >= cfg.Maxlines
       \/ cfg.Maxsize > 0 /\ s.cursize >= cfg.Maxsize
       \/ cfg.Daily /\ DayOf(now) # s.opendata

\* (mutant) docheck rotating only once the line limit is exceeded
docheck_Late(s, size, f) ==
    LET due == /\ cfg.Rotate
               /\ \/ cfg.Maxlines > 0 /\ s.curlines > cfg.Maxlines
                  \/ cfg.Maxsize > 0 /\ s.cursize >= cfg.Maxsize
                  \/ cfg.Daily /\ DayOf(now) # s.opendata
        r == IF due THEN doRotate(s, f) ELSE [s |-> s, err |-> FALSE]
    IN  IF r.err THEN [r.s EXCEPT !.diag = @ + 1]
        ELSE [r.s EXCEPT !.curlines = @ + 1, !.cursize = @ + size]

\* FileLogWriter.docheck; s.diag counts the lines it prints on os.Stderr
docheck(s, size, f) ==
    LET r == IF Due(s) THEN doRotate(s, f) ELSE [s |-> s, err |-> FALSE]
    IN  IF r.err THEN [r.s EXCEPT !.diag = @ + 1]
        ELSE [r.s EXCEPT !.curlines = @ + 1, !.cursize = @ + size]

\* MuxWriter.Write, reached through log.Logger.Println: one line, appended
\* to the file the handle is open on; on a nil or closed handle the write
\* fails and Println drops the error
Println(s, msg) ==
    IF s.fd \in s.open /\ s.exists
    THEN [s EXCEPT !.active = @ \o Line(msg)]
    ELSE s

\* FileLogWriter.WriteMsg; err is the error it returns, nil on every path
WriteMsg(s, msg, level, f) ==
    IF level < cfg.Level THEN [s |-> s, err |-> FALSE]
    ELSE [s |-> Println(docheck(s, PrefixEstimate + msg.len, f), msg),
          err |-> FALSE]

\* FileLogWriter.Destroy
Destroy(s) == [CloseFd(s, s.fd) EXCEPT !.destroyed = TRUE]

\* NewFileWriter on the directory of s: a zero FileLogWriter, then
\* startLogger; err is the error of startLogger, which NewFileWriter drops
NewFileWriter(s, f) ==
    startLogger([s EXCEPT !.fd = 0, !.open = {}, !.curlines = 0,
                          !.cursize = 0, !.opendata = 0, !.peak = 0, !.diag = 0,
                          !.destroyed = FALSE, !.renames = <<>>], f)

\* ------------------------------------------------------------ environment
NoFail == [open |-> FALSE, stat |-> FALSE, read |-> FALSE, rename |-> FALSE]

\* what the operating system may refuse during one call: nothing, or one of
\* OpenFile, Stat, ReadFile, Rename
Failures == {NoFail} \cup {[NoFail EXCEPT ![k] = TRUE] : k \in DOMAIN NoFail}

\* the failures a call may meet, given those met so far
MayFail == IF nf < MaxFaults THEN Failures ELSE {NoFail}

\* the rotated files of date 0 the directory holds before the first writer
\* is constructed: none, .002 alone, or all of .001 to .999
PreDirs == {[nums |-> {}, full |-> {}], [nums |-> {2}, full |-> {}],
            [nums |-> {}, full |-> {0}]}

\* the configurations: rotation off, or on with each choice of the limits
Configs ==
    [Maxlines : {0, MaxLinesCfg}, Maxsize : {0, MaxsizeCfg},
     Daily : BOOLEAN, Rotate : {TRUE}, Level : {INFO}]
    \cup {[Maxlines |-> MaxLinesCfg, Maxsize |-> MaxsizeCfg, Daily |-> TRUE,
           Rotate |-> FALSE, Level |-> INFO]}

\* the log directory before the first writer: no log file, the rotated
\* files of pre.  names and full are the rotated names the directory holds:
\* the names in names, and all MaxNum names of every date in full; rotated
\* holds the content of the files the writers renamed.
Directory(pre) ==
    [fd |-> 0, open |-> {}, curlines |-> 0, cursize |-> 0, opendata |-> 0,
     exists |-> FALSE, active |-> <<>>,
     names |-> {RotName(0, n) : n \in pre.nums}, full |-> pre.full,
     rotated |-> [x \in {} |-> <<>>],
     renames |-> <<>>, peak |-> 0, diag |-> 0, destroyed |-> FALSE]

\* what a call was given (its level, the length of its message), what it
\* found (the
\* counters, the log file, the rotated names, the renames made, the lines
\* on os.Stderr, the state of the handle) and the error it returned
Seen(op, level, len, s, err) ==
    [op |-> op, level |-> level, len |-> len,
     lines |-> s.curlines, size |-> s.cursize, active |-> s.active,
     names |-> s.names, nren |-> Len(s.renames), diag |-> s.diag,
     wasOpen |-> s.fd \in s.open, wasDestroyed |-> s.destroyed, err |-> err]

\* a call the properties do not look into
Other(op) ==
    Seen(op, TRACE, 0, Directory([nums |-> {}, full |-> {}]), FALSE)

\* a writer just constructed, under one of the configurations cs, in one
\* of the directories ds
InitWriter(cs, ds) ==
    /\ cfg \in cs
    /\ now = 0
    /\ \E pre \in ds : w = NewFileWriter(Directory(pre), NoFail).s
    /\ nw = 0
    /\ nr = 0
    /\ nf = 0
    /\ last = Other("Init")

\* a caller writes the next message, at one of levels, the operating
\* system refusing what one of fails says
WriteAt(levels, fails) ==
    /\ nw < MaxWrites
    /\ \E level \in levels, len \in MsgLens, f \in fails :
          LET msg == [n |-> nw + 1, len |-> len]
              r == WriteMsg(w, msg, level, f)
          IN  /\ w' = r.s
              /\ last' = Seen("WriteMsg", level, len, w, r.err)
              /\ nw' = IF level < cfg.Level THEN nw ELSE nw + 1
              /\ nf' = IF r = WriteMsg(w, msg, level, NoFail) THEN nf ELSE nf + 1
    /\ UNCHANGED <<cfg, now, nr, dvars, xvars>>

DoWriteMsg == WriteAt({DEBUG, INFO}, MayFail)

DoDestroy ==
    /\ w' = Destroy(w)
    /\ last' = Other("Destroy")
    /\ UNCHANGED <<cfg, now, nw, nr, nf, dvars, xvars>>

\* FileLogWriter.Flush: fd.Sync() changes nothing the model holds
DoFlush ==
    /\ last' = Other("Flush")
    /\ UNCHANGED <<cfg, w, now, nw, nr, nf, dvars, xvars>>

\* midnight passes
Tick ==
    /\ now < MaxDate
    /\ now' = now + 1
    /\ last' = Other("Tick")
    /\ UNCHANGED <<cfg, w, nw, nr, nf, dvars, xvars>>

\* the process ends, which closes its handles, and a new one constructs a
\* writer on the same directory
Restart ==
    /\ nr < MaxRestarts
    /\ \E f \in MayFail :
          LET r == NewFileWriter(w, f)
          IN  /\ w' = r.s
              /\ last' = Seen("NewFileWriter", TRACE, 0, w, r.err)
              /\ nf' = IF r = NewFileWriter(w, NoFail) THEN nf ELSE nf + 1
    /\ nr' = nr + 1
    /\ UNCHANGED <<cfg, now, nw, dvars, xvars>>

\* ----------------------------------------------------------------- Logger
Threads == 1..NumThreads

NoMsg == [skip |-> 0, level |-> 0, msg |-> 0, ctx |-> FALSE]

Idle == [pc |-> "idle", op |-> "", lm |-> NoMsg, did |-> <<>>]

\* the handles the FileLogWriter instances hold open: <<instance, handle>>
OpenHandles ==
    UNION {{<<i, h>> : h \in sinks[i].s.open} :
              i \in {j \in 1..Len(sinks) : sinks[j].kind = LogFile}}

\* a call on the Logger: by whom, with what argument, the error it
\* returned and, at os.Exit, the steps the call went through
Did(op, t, arg, err) ==
    [op |-> op, t |-> t, arg |-> arg, err |-> err, did |-> <<>>]

\* a step of the loop
Step == Did("loop", 0, 0, FALSE)

\* newLogger: level TRACE, no outputs, an empty msgChan, the loop started;
\* init: the registry holds newConsole.  levels are the values the level
\* field is set to.
InitLogger(levels) ==
    /\ lg \in [level : levels, outputs : {<<>>}]
    /\ msgChan = <<>>
    /\ loop = [pc |-> "select", bm |-> NoMsg, todo |-> 0]
    /\ thr = [t \in Threads |-> Idle]
    /\ adapters = {LogConsole}
    /\ sinks = <<>>
    /\ delivered = {}
    /\ sent = {}
    /\ proc = [state |-> "running", code |-> 0]
    /\ ns = 0
    /\ na = 0
    /\ dlast = Did("newLogger", 0, 0, FALSE)

Running(t) == proc.state = "running" /\ thr[t].pc = "idle"

\* Register(kind, constructor) of the registry: the file kind's generator
\* NewFileWriter is entered
Register(kind) ==
    /\ proc.state = "running"
    /\ kind \notin adapters
    /\ adapters' = adapters \cup {kind}
    /\ dlast' = Did("Register", 0, kind, FALSE)
    /\ UNCHANGED <<fvars, xvars, lg, msgChan, loop, thr, sinks, delivered, sent, proc, ns, na>>

\* the generator of a kind: newConsole holds no file, NewFileWriter opens
\* the log file
Generate(kind) ==
    IF kind = LogFile
    THEN [kind |-> kind,
          s |-> NewFileWriter(Directory([nums |-> {}, full |-> {}]), NoFail).s]
    ELSE [kind |-> kind, s |-> Directory([nums |-> {}, full |-> {}])]

\* l.outputs is written (d = 1: an entry put, d = -1: an entry deleted)
\* under the Logger's mutex, which startLogger's range over l.outputs does
\* not take.  A write during the range is a data race: the range goes on
\* as it was, or makes one iteration more (the entry put) or less (the
\* entry deleted), or the runtime ends the process ("concurrent map
\* iteration and map write").
RacedLoop(d) ==
    IF loop.pc # "range" THEN {loop}
    ELSE {loop,
          IF loop.todo + d > 0 THEN [loop EXCEPT !.todo = @ + d]
          ELSE [pc |-> "select", bm |-> NoMsg, todo |-> 0]}

RacedProc ==
    IF loop.pc # "range" THEN {proc}
    ELSE {proc, [state |-> "panicked", code |-> 2]}

\* Logger.AddLogger, under the Logger's mutex
AddLogger(t, kind) ==
    /\ Running(t)
    /\ na < MaxAdds
    /\ na' = na + 1
    /\ IF kind \in adapters
       THEN /\ sinks' = Append(sinks, Generate(kind))
            /\ lg' = [lg EXCEPT !.outputs =
                        [k \in DOMAIN @ \cup {kind} |->
                            IF k = kind THEN Len(sinks) + 1 ELSE @[k]]]
            /\ dlast' = Did("AddLogger", t, kind, FALSE)
            /\ loop' \in RacedLoop(1)
            /\ proc' \in RacedProc
       ELSE /\ proc' = [state |-> "panicked", code |-> 2]
            /\ dlast' = Did("AddLogger", t, kind, FALSE)
            /\ UNCHANGED <<sinks, lg, loop>>
    /\ UNCHANGED <<fvars, xvars, msgChan, thr, adapters, delivered, sent, ns>>

\* Logger.DelLogger, under the Logger's mutex
DelLogger(t, kind) ==
    /\ Running(t)
    /\ IF kind \in DOMAIN lg.outputs
       THEN /\ sinks' = [sinks EXCEPT ![lg.outputs[kind]].s =
                            IF sinks[lg.outputs[kind]].kind = LogFile
                            THEN Destroy(@) ELSE @]
            /\ lg' = [lg EXCEPT !.outputs =
                        [k \in DOMAIN @ \ {kind} |-> @[k]]]
            /\ loop' \in RacedLoop(-1)
            /\ proc' \in RacedProc
       ELSE /\ proc' = [state |-> "panicked", code |-> 2]
            /\ UNCHANGED <<sinks, lg, loop>>
    /\ dlast' = Did("DelLogger", t, kind, FALSE)
    /\ UNCHANGED <<fvars, xvars, msgChan, thr, adapters, delivered, sent, ns, na>>

\* Logger.Flush: Flush on every output; fd.Sync() and the console's Flush
\* change nothing the model holds
Flush(t) ==
    /\ Running(t)
    /\ dlast' = Did("Flush", t, 0, FALSE)
    /\ UNCHANGED <<fvars, xvars, lg, msgChan, loop, thr, adapters, sinks, delivered, sent,
                   proc, ns, na>>

\* runtime.Caller(skip) finds the frame: the callers' stacks hold frame 0
Caller(skip) == skip = 0

\* (mutant) writeMsg dropping the messages at the Logger's level too
writeMsg_Over(skip, level, msg) ==
    IF lg.level >= level THEN NoMsg
    ELSE [skip |-> skip, level |-> level, msg |-> msg,
          ctx |-> level >= ERROR /\ Caller(skip)]

\* Logger.writeMsg up to its channel send: nothing when the level is under
\* the Logger's, else the envelope lm (ctx: the caller's file, line and
\* function stand before the text)
writeMsg(skip, level, msg) ==
    IF lg.level > level THEN NoMsg
    ELSE [skip |-> skip, level |-> level, msg |-> msg,
          ctx |-> level >= ERROR /\ Caller(skip)]

\* Trace ... Critical (op = "Log") and Fatal: the call to writeMsg
\* (the source's writerMsg), which ends at the filter or goes on to
\*     l.msgChan <- lm
Submit(t, op, levels) ==
    /\ Running(t)
    /\ ns < MaxSubmits
    /\ ns' = ns + 1
    /\ \E level \in levels, skip \in {0, 1} :
          LET lm == writeMsg(skip, level, ns + 1)
          IN  /\ level < ERROR => skip = 0
              /\ op = "Fatal" <=> level = FATAL
              /\ thr' = [thr EXCEPT ![t] =
                           IF lm = NoMsg
                           THEN IF op = "Fatal"
                                THEN [Idle EXCEPT !.pc = "quit", !.op = op]
                                ELSE Idle
                           ELSE [pc |-> "send", op |-> op, lm |-> lm,
                                 did |-> <<>>]]
              /\ dlast' = Did("writeMsg", t, level, FALSE)
    /\ UNCHANGED <<fvars, xvars, lg, msgChan, loop, adapters, sinks, delivered, sent, proc,
                   na>>

\* l.msgChan <- lm, once msgChan has room; Fatal goes on to Close
Send(t) ==
    /\ proc.state = "running"
    /\ thr[t].pc = "send"
    /\ Len(msgChan) < Buffer
    /\ msgChan' = Append(msgChan, thr[t].lm)
    /\ sent' = sent \cup {thr[t].lm.msg}
    /\ thr' = [thr EXCEPT ![t] =
                 IF thr[t].op = "Fatal"
                 THEN [@ EXCEPT !.pc = "quit", !.did = Append(@, "enqueue")]
                 ELSE Idle]
    /\ dlast' = Did("send", t, thr[t].lm.level, FALSE)
    /\ UNCHANGED <<fvars, xvars, lg, loop, adapters, sinks, delivered, proc, ns, na>>

\* Logger.Close: l.quit <- true, which waits for the loop to receive
Close(t) ==
    /\ Running(t)
    /\ thr' = [thr EXCEPT ![t] = [Idle EXCEPT !.pc = "quit", !.op = "Close"]]
    /\ dlast' = Did("Close", t, 0, FALSE)
    /\ UNCHANGED <<fvars, xvars, lg, msgChan, loop, adapters, sinks, delivered, sent, proc,
                   ns, na>>

\* (mutant) a receive that leaves the envelope on msgChan
LoopRecv_Peek ==
    /\ proc.state = "running"
    /\ loop.pc = "select"
    /\ msgChan # <<>>
    /\ msgChan' = msgChan
    /\ loop' = IF DOMAIN lg.outputs = {}
               THEN [pc |-> "select", bm |-> NoMsg, todo |-> 0]
               ELSE [pc |-> "range", bm |-> Head(msgChan),
                     todo |-> Cardinality(DOMAIN lg.outputs)]
    /\ dlast' = Step
    /\ UNCHANGED <<fvars, xvars, lg, thr, adapters, sinks, delivered, sent, proc, ns, na>>

\* startLogger: case bm := <-l.msgChan, and the range over l.outputs begins
LoopRecv ==
    /\ proc.state = "running"
    /\ loop.pc = "select"
    /\ msgChan # <<>>
    /\ msgChan' = Tail(msgChan)
    /\ loop' = IF DOMAIN lg.outputs = {}
               THEN [pc |-> "select", bm |-> NoMsg, todo |-> 0]
               ELSE [pc |-> "range", bm |-> Head(msgChan),
                     todo |-> Cardinality(DOMAIN lg.outputs)]
    /\ dlast' = Step
    /\ UNCHANGED <<fvars, xvars, lg, thr, adapters, sinks, delivered, sent, proc, ns, na>>

\* startLogger: the body of the range, once for an output:
\*     l.writeMsg(bm.msg, bm.skip, bm.level)
\* the Logger's own writeMsg, its parameters (skip, level, msg) taking the
\* arguments in the order written; it returns at the filter or sends the
\* new envelope on msgChan, for which msgChan must have room
LoopCall ==
    /\ proc.state = "running"
    /\ loop.pc = "range"
    /\ LET lm == writeMsg(loop.bm.msg, loop.bm.skip, loop.bm.level)
       IN  /\ lm # NoMsg => Len(msgChan) < Buffer
           /\ msgChan' = IF lm = NoMsg THEN msgChan ELSE Append(msgChan, lm)
    /\ loop' = IF loop.todo = 1
               THEN [pc |-> "select", bm |-> NoMsg, todo |-> 0]
               ELSE [loop EXCEPT !.todo = @ - 1]
    /\ dlast' = Step
    /\ UNCHANGED <<fvars, xvars, lg, thr, adapters, sinks, delivered, sent, proc, ns, na>>

\* startLogger: case <-l.quit: the loop returns and the Close that sent
\* goes on; after it Fatal calls os.Exit(1)
LoopQuit ==
    /\ proc.state = "running"
    /\ loop.pc = "select"
    /\ \E t \in Threads :
          /\ thr[t].pc = "quit"
          /\ thr' = [thr EXCEPT ![t] =
                       IF thr[t].op = "Fatal"
                       THEN [@ EXCEPT !.pc = "exit", !.did = Append(@, "close")]
                       ELSE Idle]
    /\ loop' = [pc |-> "done", bm |-> NoMsg, todo |-> 0]
    /\ dlast' = Step
    /\ UNCHANGED <<fvars, xvars, lg, msgChan, adapters, sinks, delivered, sent, proc, ns, na>>

\* Fatal: os.Exit(1)
Exit(t) ==
    /\ proc.state = "running"
    /\ thr[t].pc = "exit"
    /\ proc' = [state |-> "exited", code |-> 1]
    /\ dlast' = [Did("Exit", t, 0, FALSE) EXCEPT
                    !.did = Append(thr[t].did, "exit")]
    /\ UNCHANGED <<fvars, xvars, lg, msgChan, loop, thr, adapters, sinks, delivered, sent,
                   ns, na>>

\* ----------------------------------------------------------- deleteOldLog
\* An entry of the log directory, as filepath.Walk meets it: os.Lstat on it
\* fails (statErr: no permission, or deleted since the names were read) or
\* gives its FileInfo: a directory or not, last modified age days ago; its
\* base name starts with the log file's or not; os.Remove on it fails or
\* not.
Entries ==
    [isDir : BOOLEAN, age : {Maxdays, Maxdays + 1}, prefix : BOOLEAN,
     statErr : BOOLEAN, rmErr : BOOLEAN]

\* the directories walked: up to MaxEntries entries, in lexical order
Dirs == UNION {[1..n -> Entries] : n \in 0..MaxEntries}

\* the function deleteOldLog hands to filepath.Walk, called on entry e.
\* When Lstat failed Walk passes a nil FileInfo: info.IsDir() panics, the
\* deferred recover turns the panic into the error the function returns.
\* remove: os.Remove(path) was called and removed the file.
walkFn(e) ==
    IF e.statErr THEN [remove |-> FALSE, err |-> TRUE]
    ELSE IF ~e.isDir /\ e.age > Maxdays /\ e.prefix
         THEN [remove |-> ~e.rmErr, err |-> FALSE]
         ELSE [remove |-> FALSE, err |-> FALSE]

\* deleteOldLog not started, on the directory es
IdleSweep(es) == [state |-> "idle", entries |-> es, pos |-> 0, removed |-> {}]

\* go w.deleteOldLog(): filepath.Walk calls the function on the directory
\* itself (a directory: nothing to do) and reads its names
WalkStart ==
    /\ sweep.state = "idle"
    /\ sweep' = [sweep EXCEPT !.state = "walking"]
    /\ UNCHANGED <<fvars, dvars, cw>>

\* filepath.Walk on the next name: Lstat, then the function; it returns at
\* the first error the function returns
WalkEntry ==
    /\ sweep.state = "walking"
    /\ sweep.pos < Len(sweep.entries)
    /\ LET i == sweep.pos + 1
           r == walkFn(sweep.entries[i])
       IN  sweep' = [sweep EXCEPT
                        !.pos = i,
                        !.removed = IF r.remove THEN @ \cup {i} ELSE @,
                        !.state = IF r.err THEN "aborted" ELSE @]
    /\ UNCHANGED <<fvars, dvars, cw>>

\* filepath.Walk returns after the last name
WalkEnd ==
    /\ sweep.state = "walking"
    /\ sweep.pos = Len(sweep.entries)
    /\ sweep' = [sweep EXCEPT !.state = "done"]
    /\ UNCHANGED <<fvars, dvars, cw>>

\* ------------------------------------------- WriteMsg from several goroutines
\* cw.pc[t]: where goroutine t stands in its WriteMsg; cw.msg[t]: its
\* message; startLock and mwLock: the goroutine holding w.startLock and
\* w.mw's mutex (0: free); fname: the name doRotate chose; printed: the
\* messages MuxWriter.Write was called with, in order; lost: those written
\* on a handle that was closed.
IdleWriters ==
    [pc |-> [t \in Threads |-> "idle"], msg |-> [t \in Threads |-> NL],
     startLock |-> 0, mwLock |-> 0, fname |-> <<>>, printed |-> <<>>,
     lost |-> {}]

\* docheck's last two statements
Count(s, size) == [s EXCEPT !.curlines = @ + 1, !.cursize = @ + size]

\* WriteMsg is called, at a level the writer lets through
CallWriteMsg(t) ==
    /\ cw.pc[t] = "idle"
    /\ nw < MaxWrites
    /\ nw' = nw + 1
    /\ \E len \in MsgLens :
          cw' = [cw EXCEPT !.pc[t] = "docheck",
                           !.msg[t] = [n |-> nw + 1, len |-> len]]
    /\ UNCHANGED <<cfg, w, now, nr, nf, last, dvars, sweep>>

\* docheck, once it holds startLock: without a rotation it counts and
\* returns; else doRotate up to w.mw.Lock(), returning when the log file is
\* not there or no name is free
DocheckLocked(t) ==
    /\ cw.pc[t] = "docheck"
    /\ cw.startLock = 0
    /\ LET size == PrefixEstimate + cw.msg[t].len
       IN  IF ~Due(w) \/ ~w.exists
           THEN /\ w' = Count(w, size)
                /\ cw' = [cw EXCEPT !.pc[t] = "print"]
           ELSE IF Probe(w) > MaxNum
           THEN /\ w' = [w EXCEPT !.diag = @ + 1]
                /\ cw' = [cw EXCEPT !.pc[t] = "print"]
           ELSE /\ w' = w
                /\ cw' = [cw EXCEPT !.pc[t] = "lock", !.startLock = t,
                                    !.fname = RotName(now, Probe(w))]
    /\ UNCHANGED <<cfg, now, nw, nr, nf, last, dvars, sweep>>

\* doRotate: w.mw.Lock()
RotateLock(t) ==
    /\ cw.pc[t] = "lock"
    /\ cw.mwLock = 0
    /\ cw' = [cw EXCEPT !.pc[t] = "close", !.mwLock = t]
    /\ UNCHANGED <<fvars, dvars, sweep>>

\* doRotate: fd.Close()
RotateClose(t) ==
    /\ cw.pc[t] = "close"
    /\ w' = CloseFd(w, w.fd)
    /\ cw' = [cw EXCEPT !.pc[t] = "rename"]
    /\ UNCHANGED <<cfg, now, nw, nr, nf, last, dvars, sweep>>

\* doRotate: os.Rename; on its error doRotate returns (w.mw.Unlock() is
\* deferred) and docheck prints the error and returns
RotateRename(t) ==
    /\ cw.pc[t] = "rename"
    /\ \E f \in {g \in MayFail : g = NoFail \/ g.rename} :
          IF f.rename
          THEN /\ w' = [w EXCEPT !.diag = @ + 1]
               /\ nf' = nf + 1
               /\ cw' = [cw EXCEPT !.pc[t] = "print", !.startLock = 0,
                                   !.mwLock = 0]
          ELSE /\ w' = Rename(w, cw.fname)
               /\ nf' = nf
               /\ cw' = [cw EXCEPT !.pc[t] = "reopen"]
    /\ UNCHANGED <<cfg, now, nw, nr, last, dvars, sweep>>

\* doRotate: w.startLogger(), then the return through docheck, which
\* counts the message when doRotate returned nil
RotateReopen(t) ==
    /\ cw.pc[t] = "reopen"
    /\ \E f \in {g \in MayFail : ~g.rename} :
          LET r == startLogger(w, f)
          IN  /\ w' = IF r.err THEN [r.s EXCEPT !.diag = @ + 1]
                      ELSE Count(r.s, PrefixEstimate + cw.msg[t].len)
              /\ nf' = IF r = startLogger(w, NoFail) THEN nf ELSE nf + 1
    /\ cw' = [cw EXCEPT !.pc[t] = "print", !.startLock = 0, !.mwLock = 0]
    /\ UNCHANGED <<cfg, now, nw, nr, last, dvars, sweep>>

\* (mutant) MuxWriter.Write without l.Lock()
MuxWrite_NoLock(t) ==
    /\ cw.pc[t] = "print"
    /\ w' = Println(w, cw.msg[t])
    /\ cw' = [cw EXCEPT !.pc[t] = "idle",
                        !.printed = Append(@, cw.msg[t].n),
                        !.lost = IF w.fd \in w.open /\ w.exists THEN @
                                 ELSE @ \cup {cw.msg[t].n}]
    /\ UNCHANGED <<cfg, now, nw, nr, nf, last, dvars, sweep>>

\* w.Logger.Println(msg): MuxWriter.Write, under w.mw's mutex
MuxWrite(t) ==
    /\ cw.pc[t] = "print"
    /\ cw.mwLock = 0
    /\ w' = Println(w, cw.msg[t])
    /\ cw' = [cw EXCEPT !.pc[t] = "idle",
                        !.printed = Append(@, cw.msg[t].n),
                        !.lost = IF w.fd \in w.open /\ w.exists THEN @
                                 ELSE @ \cup {cw.msg[t].n}]
    /\ UNCHANGED <<cfg, now, nw, nr, nf, last, dvars, sweep>>

\* ---------------------------------------------------------- specifications
\* the writer of Spec and SpecReopen stands alone; the Logger of SpecLogger
\* has no writer of its own to write to
OneConfig == {[Maxlines |-> MaxLinesCfg, Maxsize |-> 0, Daily |-> FALSE,
               Rotate |-> TRUE, Level |-> INFO]}

NoDir == {[nums |-> {}, full |-> {}]}

\* no deleteOldLog and no goroutine inside WriteMsg
InitIdle == sweep = IdleSweep(<<>>) /\ cw = IdleWriters

Init == InitWriter(Configs, PreDirs) /\ InitLogger({TRACE}) /\ InitIdle

\* one writer from its construction on
Next == DoWriteMsg \/ DoDestroy \/ DoFlush \/ Tick

Spec == Init /\ [][Next]_vars

\* writers constructed one after the other on the same directory
NextReopen == DoWriteMsg \/ DoDestroy \/ Restart

SpecReopen == Init /\ [][NextReopen]_vars

\* a Logger, its loop and its callers
InitLog ==
    InitWriter(OneConfig, NoDir) /\ InitLogger({TRACE, ERROR}) /\ InitIdle

NextLogger ==
    \/ Register(LogFile)
    \/ \E t \in Threads, kind \in LogType : AddLogger(t, kind)
    \/ \E t \in Threads, kind \in LogType : DelLogger(t, kind)
    \/ \E t \in Threads : Flush(t)
    \/ \E t \in Threads : ns < MaxLogged /\ Submit(t, "Log", {DEBUG, ERROR})
    \/ \E t \in Threads : ns < MaxLogged /\ Submit(t, "Fatal", {FATAL})
    \/ \E t \in Threads : Send(t)
    \/ \E t \in Threads : Close(t)
    \/ LoopRecv
    \/ LoopCall
    \/ LoopQuit
    \/ \E t \in Threads : Exit(t)

SpecLogger == InitLog /\ [][NextLogger]_vars

\* the Logger as the package makes it: the console is the one kind its
\* registry holds
NextQueue ==
    \/ \E t \in Threads : AddLogger(t, LogConsole)
    \/ \E t \in Threads : DelLogger(t, LogConsole)
    \/ \E t \in Threads : Submit(t, "Log", {DEBUG, ERROR})
    \/ \E t \in Threads : Send(t)
    \/ \E t \in Threads : Close(t)
    \/ LoopRecv
    \/ LoopCall
    \/ LoopQuit

SpecQueue == InitLog /\ [][NextQueue]_vars

\* the level filters, of the Logger and of the writer, at every level.
\* The two share no state (the loop calls no writer), so a behaviour here
\* uses the one or the other.
LevelConfigs == {[c EXCEPT !.Level = L] : c \in OneConfig, L \in LogLevel}

InitLevel ==
    /\ InitWriter(LevelConfigs, NoDir)
    /\ InitLogger(LogLevel)
    /\ lg.level = cfg.Level
    /\ InitIdle

WriterUnused == last.op = "Init"

LoggerUnused == dlast.op = "newLogger"

LevelWrite == LoggerUnused /\ WriteAt(LogLevel, {NoFail})

LevelDestroy == LoggerUnused /\ DoDestroy

LevelAdd == WriterUnused /\ \E t \in Threads : AddLogger(t, LogConsole)

LevelLog ==
    /\ WriterUnused /\ ns < MaxLogged
    /\ \E t \in Threads : Submit(t, "Log", LogLevel \ {FATAL})

LevelFatal ==
    /\ WriterUnused /\ ns < MaxLogged
    /\ \E t \in Threads : Submit(t, "Fatal", {FATAL})

LevelSend == \E t \in Threads : Send(t)

NextLevel ==
    \/ LevelWrite
    \/ LevelDestroy
    \/ LevelAdd
    \/ LevelLog
    \/ LevelFatal
    \/ LevelSend
    \/ LoopRecv
    \/ LoopCall

SpecLevel == InitLevel /\ [][NextLevel]_vars

\* deleteOldLog on a directory
InitSweep ==
    /\ InitWriter(OneConfig, NoDir)
    /\ InitLogger({TRACE})
    /\ sweep \in {IdleSweep(es) : es \in Dirs}
    /\ cw = IdleWriters

NextSweep == WalkStart \/ WalkEntry \/ WalkEnd

SpecSweep == InitSweep /\ [][NextSweep]_vars

\* goroutines calling WriteMsg on one writer
InitConc ==
    /\ InitWriter(OneConfig, NoDir)
    /\ InitLogger({TRACE})
    /\ InitIdle

NextConc ==
    \/ \E t \in Threads : CallWriteMsg(t)
    \/ \E t \in Threads : DocheckLocked(t)
    \/ \E t \in Threads : RotateLock(t)
    \/ \E t \in Threads : RotateClose(t)
    \/ \E t \in Threads : RotateRename(t)
    \/ \E t \in Threads : RotateReopen(t)
    \/ \E t \in Threads : MuxWrite(t)

SpecConc == InitConc /\ [][NextConc]_vars

\* ------------------------------------------------------------- properties
\* the numbers of the messages whose records a file holds, in order
RecordIds(content) ==
    [i \in 1..Len(Records(content)) |-> Records(content)[i].n]

\* the last call was a WriteMsg during which the log file was renamed
Rotated == last.op = "WriteMsg" /\ Len(w.renames) > last.nren

\* C1: a writeMsg under the Logger's level returns without reaching the
\* channel send, and one at or over it stands at the send with its
\* envelope, which the send puts last on msgChan; no envelope queued and no
\* WriteMsg the loop makes on a sink is under the Logger's level.  A
\* WriteMsg under the writer's Level changes neither file nor counter, and
\* one at or over it, on an open handle, puts its record last in the log
\* file.
C1_LevelFilter ==
    /\ dlast.op = "writeMsg" /\ dlast.arg < lg.level
       => thr[dlast.t].pc # "send"
    /\ dlast.op = "writeMsg" /\ dlast.arg >= lg.level
       => /\ thr[dlast.t].pc = "send"
          /\ thr[dlast.t].lm.level = dlast.arg
          /\ thr[dlast.t].lm.msg = ns
    /\ dlast.op = "send"
       => /\ msgChan # <<>>
          /\ msgChan[Len(msgChan)].level = dlast.arg
          /\ msgChan[Len(msgChan)].msg \in sent
    /\ \A i \in 1..Len(msgChan) : msgChan[i].level >= lg.level
    /\ \A d \in delivered : d[2].level >= lg.level
    /\ last.op = "WriteMsg" /\ last.level < cfg.Level
       => /\ w.active = last.active
          /\ Len(w.renames) = last.nren
          /\ w.curlines = last.lines /\ w.cursize = last.size
    /\ last.op = "WriteMsg" /\ last.level >= cfg.Level /\ w.fd \in w.open
       => /\ w.active # <<>>
          /\ RecordIds(w.active)[Len(RecordIds(w.active))] = nw
          /\ \/ w.active = last.active \o Line([n |-> nw, len |-> last.len])
             \/ Rotated /\ w.active = Line([n |-> nw, len |-> last.len])

\* a message at exactly the Logger's level, over TRACE, put on msgChan
C1_Witness ==
    /\ dlast.op = "send"
    /\ dlast.arg = lg.level
    /\ lg.level > TRACE
    /\ msgChan # <<>>

\* C2: a writer with rotation on, daily rotation off, Maxlines = M > 0 and
\* no byte limit, whose handle was never closed by Destroy and whose
\* rotations never failed: through the first M writes nothing is renamed
\* and the log file holds the records written; the (M+1)-th write renames
\* exactly once, the renamed file (.001) holds the first M records in order
\* and the log file holds the (M+1)-th record alone.
C2_RotateAtMaxlines ==
    (/\ cfg.Rotate /\ ~cfg.Daily /\ cfg.Maxlines > 0 /\ cfg.Maxsize = 0
     /\ ~w.destroyed /\ nf = 0 /\ w.diag = 0)
    => /\ nw <= cfg.Maxlines
          => /\ w.renames = <<>>
             /\ RecordIds(w.active) = [i \in 1..nw |-> i]
       /\ nw = cfg.Maxlines + 1
          => /\ Len(w.renames) = 1
             /\ SeqOf(w.renames[1]) = 1
             /\ RecordIds(w.rotated[w.renames[1]]) = [i \in 1..cfg.Maxlines |-> i]
             /\ RecordIds(w.active) = <<cfg.Maxlines + 1>>

C2_Witness ==
    /\ cfg.Rotate /\ ~cfg.Daily /\ cfg.Maxlines > 0 /\ cfg.Maxsize = 0
    /\ ~w.destroyed /\ nf = 0 /\ w.diag = 0
    /\ nw = cfg.Maxlines + 1
    /\ Rotated
    /\ RecordIds(w.active) = <<cfg.Maxlines + 1>>

\* C3: after a WriteMsg whose rotation succeeded, the counters hold that
\* write alone: both were 0 when the write was counted.
C3_CountersReset ==
    (Rotated /\ w.diag = last.diag)
    => /\ w.curlines = 1
       /\ w.cursize = PrefixEstimate + last.len

\* C4: a WriteMsg that renames the log file renames it once, to the name of
\* today's date and the smallest sequence number of 1..999 whose name did
\* not exist; the name is new, it holds what the log file held, and the
\* names this writer made earlier for the same date have smaller numbers.
C4_RotatedName ==
    Rotated
    => LET fname == w.renames[Len(w.renames)]
       IN  /\ Len(w.renames) = last.nren + 1
           /\ Len(fname) = 4
           /\ fname[1] = now
           /\ \A i \in 2..4 : fname[i] \in 0..9
           /\ SeqOf(fname) \in 1..MaxNum
           /\ fname \notin last.names /\ fname[1] \notin w.full
           /\ \A k \in 1..(SeqOf(fname) - 1) : RotName(now, k) \in last.names
           /\ w.rotated[fname] = last.active
           /\ \A i \in 1..last.nren :
                 w.renames[i][1] = fname[1] => SeqOf(w.renames[i]) < SeqOf(fname)

\* the second rename of a day, to .002 after .001
C4_Witness ==
    /\ Rotated
    /\ Len(w.renames) = 2
    /\ w.renames[1] = RotName(now, 1)
    /\ w.renames[2] = RotName(now, 2)

\* C5: a writer constructed without error on a log file of k >= 1 records
\* has k as its line counter.
C5_ReopenCount ==
    (/\ last.op = "NewFileWriter" /\ ~last.err
     /\ Len(Records(w.active)) >= 1)
    => w.curlines = Len(Records(w.active))

\* C6: a writer has at most one handle open, also within a call.
C6_OneHandle == Cardinality(w.open) <= 1 /\ w.peak <= 1

\* a writer that has renamed its file and has had a rotation fail, open
C6_Witness ==
    /\ last.op = "WriteMsg"
    /\ Len(w.renames) >= 1
    /\ w.diag >= 1
    /\ w.open = {w.fd}

\* C7: while the process runs, the FileLogWriter instances hold one handle
\* open when the file kind is among the outputs, and none when it is not.
C7_NoHandleLeak ==
    proc.state = "running"
    => Cardinality(OpenHandles) = IF LogFile \in DOMAIN lg.outputs THEN 1 ELSE 0

\* C8: AddLogger with a kind the registry does not hold returns an error,
\* and the process runs on.
C8_UnknownKind ==
    (dlast.op = "AddLogger" /\ dlast.arg \notin adapters)
    => dlast.err /\ proc.state = "running"

\* C9: when Fatal exits, the status is not 0, the call has enqueued,
\* flushed and closed, in this order, and every message the callers put on
\* msgChan has been written to every output.
C9_FatalDelivers ==
    proc.state = "exited"
    => /\ proc.code # 0
       /\ dlast.did = <<"enqueue", "flush", "close", "exit">>
       /\ \A m \in sent, k \in DOMAIN lg.outputs :
              <<lg.outputs[k], m>> \in {<<d[1], d[2].msg>> : d \in delivered}

\* C10: a WriteMsg after Destroy, at a level the writer lets through,
\* returns an error and leaves the files as they were.
C10_WriteAfterDestroy ==
    (/\ last.op = "WriteMsg" /\ last.wasDestroyed
     /\ last.level >= cfg.Level)
    => /\ last.err
       /\ w.active = last.active
       /\ Len(w.renames) = last.nren

\* C11: a WriteMsg (at a level the writer lets through, on a writer not
\* destroyed) during or after a rotation that failed still appends its
\* record to the log file, through an open handle.
C11_FailedRotationAppends ==
    (/\ last.op = "WriteMsg" /\ last.level >= cfg.Level
     /\ ~w.destroyed /\ w.diag >= 1)
    => /\ w.fd \in w.open
       /\ w.exists
       /\ w.active # <<>>
       /\ w.active[Len(w.active) - 1] = [n |-> nw, len |-> last.len]

\* C12: msgChan never holds more than Buffer envelopes, an envelope that
\* passed the filter waits at the send until it is on msgChan, and while a
\* send waits on a full msgChan and the loop has not returned, the loop is
\* able to go on (to receive, or to end the call it is in).
C12_BackPressure ==
    /\ Len(msgChan) <= Buffer
    /\ \A t \in Threads :
          (/\ proc.state = "running" /\ loop.pc # "done"
           /\ thr[t].pc = "send" /\ Len(msgChan) >= Buffer)
          => ENABLED (LoopRecv \/ LoopCall)

\* C14: a step of the loop in its range over the outputs calls WriteMsg on
\* one more sink, with the envelope received, and puts nothing on msgChan.
C14_FanOut ==
    [][(loop.pc = "range" /\ loop' # loop)
       => /\ \E k \in DOMAIN lg.outputs :
                delivered' = delivered \cup {<<lg.outputs[k], loop.bm>>}
          /\ Cardinality(delivered') = Cardinality(delivered) + 1
          /\ msgChan' = msgChan]_vars

\* the estimated sizes of the records of a file, summed
RECURSIVE Estimated(_)
Estimated(content) ==
    IF content = <<>> THEN 0
    ELSE (IF Head(content) = NL THEN 0 ELSE PrefixEstimate + Head(content).len)
         + Estimated(Tail(content))

\* C16: after every call on a writer that was opened on an empty file and
\* not destroyed, the line counter is the number of records in the log
\* file and the byte counter the sum of their estimated sizes.
C16_CountersTrack ==
    ~w.destroyed
    => /\ w.curlines = Len(Records(w.active))
       /\ w.cursize = Estimated(w.active)

\* C20: a Close that waits to hand over the quit signal has a loop that can
\* still take it: the loop has not returned.
C20_CloseReturns ==
    \A t \in Threads :
       (proc.state = "running" /\ thr[t].pc = "quit") => loop.pc # "done"

\* C13: only a receive of the loop takes an envelope off msgChan, and it
\* takes the first one, off msgChan for good, as the one envelope the loop
\* then handles; once the loop has taken the quit signal it does nothing
\* more: it calls WriteMsg on no sink, and what msgChan holds stays there.
C13_AtMostOnce ==
    [][/\ (loop.pc = "select" /\ dlast' = Step /\ loop'.pc # "done")
          => /\ msgChan # <<>>
             /\ msgChan' = Tail(msgChan)
             /\ loop'.bm \in {Head(msgChan), NoMsg}
       /\ Len(msgChan') < Len(msgChan)
          => loop.pc = "select" /\ dlast' = Step
       /\ loop.pc = "done"
          => /\ loop' = loop
             /\ delivered' = delivered
             /\ Len(msgChan') >= Len(msgChan)
             /\ SubSeq(msgChan', 1, Len(msgChan)) = msgChan]_vars

\* the loop has returned at the quit signal and msgChan holds an envelope
\* a caller sent
C13_Witness ==
    /\ loop.pc = "done"
    /\ proc.state = "running"
    /\ msgChan # <<>>
    /\ msgChan[1].msg \in sent
    /\ \A t \in Threads : thr[t].pc = "idle"

\* the records of a FileLogWriter's files: those it renamed, in the order
\* of the renames, then the log file
FilesOf(s) ==
    LET F[i \in 0..Len(s.renames)] ==
            IF i = 0 THEN <<>> ELSE F[i - 1] \o Records(s.rotated[s.renames[i]])
    IN  F[Len(s.renames)] \o Records(s.active)

C15_SweepGoesOn ==
    sweep.state \in {"done", "aborted"}
    => /\ sweep.pos = Len(sweep.entries)
       /\ \A i \in 1..Len(sweep.entries) :
             LET e == sweep.entries[i]
             IN  (/\ ~e.statErr /\ ~e.rmErr /\ ~e.isDir
                  /\ e.prefix /\ e.age > Maxdays)
                 => i \in sweep.removed

\* a goroutine between doRotate's fd.Close() and the return of startLogger
InRotation(t) == cw.pc[t] \in {"rename", "reopen"}

\* C18: at most one goroutine is inside doRotate's locked part; while one
\* is between fd.Close() and the new handle, no MuxWriter.Write is made;
\* and as long as no rotation has failed, no message is written on a
\* closed handle: every message written stands once, whole, in the files
\* (a renamed one or the log file).
C18_NoWriteInRotation ==
    /\ [](/\ Cardinality({t \in Threads :
                 cw.pc[t] \in {"lock", "close", "rename", "reopen"}}) <= 1
          /\ w.diag = 0
             => /\ cw.lost = {}
                /\ \A i \in 1..Len(cw.printed) :
                      Cardinality({j \in 1..Len(FilesOf(w)) :
                                      FilesOf(w)[j].n = cw.printed[i]}) = 1)
    /\ [][(\E t \in Threads : InRotation(t))
          => cw'.printed = cw.printed]_vars

\* a goroutine waits to write while another is renaming the log file, and
\* an earlier message is in the file being renamed
C18_Witness ==
    \E t, u \in Threads :
       /\ cw.pc[t] = "print"
       /\ cw.pc[u] = "reopen"
       /\ cw.mwLock = u
       /\ w.diag = 0
       /\ Len(cw.printed) >= 1

\* C17: l.outputs is not written while the loop's range over it is under
\* way, and the loop calls WriteMsg on no instance DelLogger has destroyed.
C17_MapGuarded ==
    [][/\ loop.pc = "range" => lg'.outputs = lg.outputs
       /\ \A d \in delivered' \ delivered : ~sinks[d[1]].s.destroyed]_vars

====
